---- MODULE Spec2Model ----
(***************************************************************************)
(* tev_client (src/src/lib.rs): the packet encoder, TevClient::send and    *)
(* TevClient::spawn.                                                       *)
(*                                                                         *)
(* Representation.                                                         *)
(*  - A machine integer (u32, u64, usize) is the tuple of its base-256     *)
(*    digits, most significant first, as long as its width in bytes: TLC's *)
(*    integers stop at 2^31 - 1 and the code's arithmetic is 64 bits wide. *)
(*    An f32 is the 32-bit pattern of its IEEE-754 value, a u32.           *)
(*  - A str and a Vec<u8> are sequences of elements.  An element is a byte *)
(*    (0..255), or a negative number -k that stands for k more copies of   *)
(*    the byte before it, so that a buffer of 2^32 bytes and more is a     *)
(*    state of the model.  Only input strings contain such runs; the       *)
(*    encoder never builds one.                                            *)
(*  - A panic unwinds: once a writer carries a panic message, every        *)
(*    further write leaves it as it is.                                    *)
(*  - The target is 64 bits wide (usize is a u64).  Integer overflow       *)
(*    panics or wraps with the build profile, which is fixed for a run.    *)
(***************************************************************************)
EXTENDS Integers, Sequences, FiniteSets, TLC

VARIABLES
    overflow_checks,  \* the build profile: TRUE when integer overflow panics (debug), FALSE when it wraps (release)
    client,           \* "none", or "connected" once a TevClient value exists
    socket,           \* the elements handed over to the client's TcpStream, in order
    log,              \* one record per send call made on the client, in call order
    target,           \* TevWriter.target of the last send, at the end of write_to or at its panic
    written,          \* the buffers the last send passed to socket.write_all, in order
    spawned           \* the last call of TevClient::spawn: its input and what it returned

vars == <<overflow_checks, client, socket, log, target, written, spawned>>

----------------------------------------------------------------------------
(* Bounds of the model. *)

MaxSends == 2
MaxLines == 2
MaxChannels == 2
MaxData == 4

----------------------------------------------------------------------------
(* Machine integers as base-256 numerals, most significant digit first. *)

RECURSIVE Rev(_)
Rev(s) == IF s = <<>> THEN <<>> ELSE Append(Rev(Tail(s)), Head(s))

Zeros(w) == [i \in 1..w |-> 0]

\* The w-digit numeral of the natural number n < 2^31.
NatDigits(n, w) ==
    [i \in 1..w |-> IF w - i > 3 THEN 0 ELSE (n \div (256 ^ (w - i))) % 256]

\* The numeral a, widened with leading zeros to w digits (u32 as u64, usize as u64).
Widen(a, w) == Zeros(w - Len(a)) \o a

\* The low w digits of the numeral a: what a w-byte integer keeps of it.
Low(a, w) == SubSeq(a, Len(a) - w + 1, Len(a))

\* Whether the numeral a has a non-zero digit above its low w digits.
Overflows(a, w) == \E i \in 1..(Len(a) - w) : a[i] # 0

IsZero(a) == \A i \in 1..Len(a) : a[i] = 0

\* Digit-wise arithmetic on least-significant-first digit sequences.
RECURSIVE AddLE(_, _, _)
AddLE(a, b, c) ==
    IF a = <<>> THEN <<c>>
    ELSE LET s == Head(a) + Head(b) + c
         IN  <<s % 256>> \o AddLE(Tail(a), Tail(b), s \div 256)

RECURSIVE MulDigitLE(_, _, _)
MulDigitLE(a, d, c) ==
    IF a = <<>> THEN <<c>>
    ELSE LET s == Head(a) * d + c
         IN  <<s % 256>> \o MulDigitLE(Tail(a), d, s \div 256)

RECURSIVE SubOneLE(_)
SubOneLE(a) ==
    IF a = <<>> THEN <<>>
    ELSE IF Head(a) = 0 THEN <<255>> \o SubOneLE(Tail(a))
    ELSE <<Head(a) - 1>> \o Tail(a)

\* The exact sum of two numerals of equal length w: w + 1 digits.
Add(a, b) == Rev(AddLE(Rev(a), Rev(b), 0))

\* The exact product of two numerals of equal length w: 2 * w digits.
RECURSIVE MulLE(_, _, _)
MulLE(a, b, w) ==
    IF b = <<>> THEN Zeros(2 * w)
    ELSE LET part == MulDigitLE(a, Head(b), 0) \o Zeros(w - 1)
             rest == <<0>> \o SubSeq(MulLE(a, Tail(b), w), 1, 2 * w - 1)
         IN  SubSeq(AddLE(part, rest, 0), 1, 2 * w)

Mul(a, b) == Rev(MulLE(Rev(a), Rev(b), Len(a)))

\* a - 1 for a non-zero numeral a.
SubOne(a) == Rev(SubOneLE(Rev(a)))

\* a < b for numerals of equal length.
RECURSIVE Less(_, _)
Less(a, b) ==
    IF a = <<>> THEN FALSE
    ELSE IF Head(a) # Head(b) THEN Head(a) < Head(b)
    ELSE Less(Tail(a), Tail(b))

\* {integer}::to_le_bytes: the bytes of the value, least significant first.
to_le_bytes(v) == Rev(v)

----------------------------------------------------------------------------
(* Strings and byte buffers. *)

ElemLen(e) == IF e < 0 THEN -e ELSE 1

\* The sum of the lengths of the elements of s, a usize.
RECURSIVE SumLen(_)
SumLen(s) ==
    IF s = <<>> THEN Zeros(8)
    ELSE Low(Add(SumLen(Tail(s)), NatDigits(ElemLen(Head(s)), 8)), 8)

\* Vec::len and str::len: the number of bytes, a usize: one for each byte, and
\* the length of each run.
len(s) ==
    LET runs == SelectSeq(s, LAMBDA e : e < 0)
    IN  Low(Add(NatDigits(Len(s) - Len(runs), 8), SumLen(runs)), 8)

\* str::contains('\0')
contains_nul(s) == \E i \in 1..Len(s) : s[i] = 0

----------------------------------------------------------------------------
(* TevWriter and the TevWritable implementations. *)

NoPanic == ""

TevWriter(vec) == [target |-> vec, panic |-> NoPanic]

\* panic!: the writer as it is when the unwinding starts.
Panic(writer, message) ==
    IF writer.panic # NoPanic THEN writer ELSE [writer EXCEPT !.panic = message]

\* Vec::push
push(writer, byte) ==
    IF writer.panic # NoPanic THEN writer
    ELSE [writer EXCEPT !.target = Append(@, byte)]

\* Vec::extend_from_slice
extend_from_slice(writer, bytes) ==
    IF writer.panic # NoPanic THEN writer
    ELSE [writer EXCEPT !.target = @ \o bytes]

\* Mutant: the opcodes of the first protocol version for OpenImage and UpdateImage.
PacketType_legacy ==
    [ReloadImage |-> 1, CloseImage |-> 2, CreateImage |-> 4,
     UpdateImageV3 |-> 3, OpenImageV2 |-> 0]

PacketType ==
    [ReloadImage |-> 1, CloseImage |-> 2, CreateImage |-> 4,
     UpdateImageV3 |-> 6, OpenImageV2 |-> 7]

bool_write_to(self, writer) == push(writer, IF self THEN 1 ELSE 0)

PacketType_write_to(self, writer) == push(writer, PacketType[self])

u32_write_to(self, writer) == extend_from_slice(writer, to_le_bytes(self))

u64_write_to(self, writer) == extend_from_slice(writer, to_le_bytes(self))

f32_write_to(self, writer) == extend_from_slice(writer, to_le_bytes(self))

\* Mutant: the bytes are appended before the check for a null byte.
str_write_to_late_check(self, writer) ==
    IF contains_nul(self)
    THEN Panic(extend_from_slice(writer, self), "cannot send strings containing '\\0'")
    ELSE push(extend_from_slice(writer, self), 0)

\* Mutant: no check for a null byte.
str_write_to_unchecked(self, writer) == push(extend_from_slice(writer, self), 0)

str_write_to(self, writer) ==
    IF contains_nul(self)
    THEN Panic(writer, "cannot send strings containing '\\0'")
    ELSE push(extend_from_slice(writer, self), 0)

\* TevWriter::write_all, per element type.
RECURSIVE write_all_str(_, _)
write_all_str(writer, values) ==
    IF values = <<>> THEN writer
    ELSE write_all_str(str_write_to(Head(values), writer), Tail(values))

RECURSIVE write_all_u64(_, _)
write_all_u64(writer, values) ==
    IF values = <<>> THEN writer
    ELSE write_all_u64(u64_write_to(Head(values), writer), Tail(values))

RECURSIVE write_all_f32(_, _)
write_all_f32(writer, values) ==
    IF values = <<>> THEN writer
    ELSE write_all_f32(f32_write_to(Head(values), writer), Tail(values))

\* `len() as u32`: the low 32 bits of a usize.
as_u32(n) == Low(n, 4)

----------------------------------------------------------------------------
(* The packets. *)

PacketOpenImage_write_to(self, writer) ==
    LET w1 == PacketType_write_to("OpenImageV2", writer)
        w2 == bool_write_to(self.grab_focus, w1)
        w3 == str_write_to(self.image_name, w2)
    IN  str_write_to(self.channel_selector, w3)

PacketReloadImage_write_to(self, writer) ==
    LET w1 == PacketType_write_to("ReloadImage", writer)
        w2 == bool_write_to(self.grab_focus, w1)
    IN  str_write_to(self.image_name, w2)

PacketCloseImage_write_to(self, writer) ==
    LET w1 == PacketType_write_to("CloseImage", writer)
    IN  str_write_to(self.image_name, w1)

\* Mutant: the height is written before the width.
PacketCreateImage_write_to_swapped(self, writer) ==
    LET w1 == PacketType_write_to("CreateImage", writer)
        w2 == bool_write_to(self.grab_focus, w1)
        w3 == str_write_to(self.image_name, w2)
        w4 == u32_write_to(self.height, w3)
        w5 == u32_write_to(self.width, w4)
        w6 == u32_write_to(as_u32(NatDigits(Len(self.channel_names), 8)), w5)
    IN  write_all_str(w6, self.channel_names)

PacketCreateImage_write_to(self, writer) ==
    LET w1 == PacketType_write_to("CreateImage", writer)
        w2 == bool_write_to(self.grab_focus, w1)
        w3 == str_write_to(self.image_name, w2)
        w4 == u32_write_to(self.width, w3)
        w5 == u32_write_to(self.height, w4)
        w6 == u32_write_to(as_u32(NatDigits(Len(self.channel_names), 8)), w5)
    IN  write_all_str(w6, self.channel_names)

\* (self.width as u64) * (self.height as u64): the product of two u32 fits a u64.
pixel_count(self) == Low(Mul(Widen(self.width, 8), Widen(self.height, 8)), 8)

\* One element of the map at line 224, o + (pixel_count - 1) * s: the value, or
\* the panic of a build with overflow checks.
DataIndex(o, s, pixels, checks) ==
    LET product == Mul(SubOne(pixels), s)
        sum == Add(o, Low(product, 8))
    IN  IF checks /\ Overflows(product, 8)
        THEN [panic |-> "attempt to multiply with overflow", value |-> Zeros(8)]
        ELSE IF checks /\ Overflows(sum, 8)
        THEN [panic |-> "attempt to add with overflow", value |-> Zeros(8)]
        ELSE [panic |-> NoPanic, value |-> Low(sum, 8)]

\* offsets.iter().zip(strides).map(..).max().unwrap(), from element i on, with
\* the greatest value so far: the iterator stops at the shorter of the two.
RECURSIVE max_data_index_used(_, _, _, _, _, _)
max_data_index_used(offsets, strides, pixels, checks, i, best) ==
    IF i > Len(offsets) \/ i > Len(strides)
    THEN [panic |-> NoPanic, value |-> best]
    ELSE LET d == DataIndex(offsets[i], strides[i], pixels, checks)
         IN  IF d.panic # NoPanic THEN d
             ELSE max_data_index_used(offsets, strides, pixels, checks, i + 1,
                      IF i = 1 \/ ~Less(d.value, best) THEN d.value ELSE best)

\* The checks of lines 214-226: the panic message, or NoPanic when all pass.
UpdateImage_checks(self, checks) ==
    LET channel_count == Len(self.channel_names)
        used == max_data_index_used(self.channel_offsets, self.channel_strides,
                                    pixel_count(self), checks, 1, Zeros(8))
        next == Add(used.value, NatDigits(1, 8))
    IN  IF channel_count = 0 THEN "Must update at least one channel"
        ELSE IF channel_count # Len(self.channel_offsets)
        THEN "Channel count must be consistent"
        ELSE IF channel_count # Len(self.channel_strides)
        THEN "Channel count must be consistent"
        ELSE IF IsZero(pixel_count(self)) THEN "Must update at least one pixel"
        ELSE IF used.panic # NoPanic THEN used.panic
        ELSE IF checks /\ Overflows(next, 8) THEN "attempt to add with overflow"
        ELSE IF Low(next, 8) # NatDigits(Len(self.data), 8)
        THEN "Data size does not match actually used data range"
        ELSE NoPanic

\* Mutant: the opcode is written before the checks.
PacketUpdateImage_write_to_checks_late(self, writer, checks) ==
    LET failed == UpdateImage_checks(self, checks)
        w1 == PacketType_write_to("UpdateImageV3", writer)
        w2 == bool_write_to(self.grab_focus, w1)
        w3 == str_write_to(self.image_name, w2)
        w4 == u32_write_to(as_u32(NatDigits(Len(self.channel_names), 8)), w3)
        w5 == write_all_str(w4, self.channel_names)
        w6 == u32_write_to(self.x, w5)
        w7 == u32_write_to(self.y, w6)
        w8 == u32_write_to(self.width, w7)
        w9 == u32_write_to(self.height, w8)
        w10 == write_all_u64(w9, self.channel_offsets)
        w11 == write_all_u64(w10, self.channel_strides)
    IN  IF failed # NoPanic THEN Panic(w1, failed)
        ELSE write_all_f32(w11, self.data)

PacketUpdateImage_write_to(self, writer, checks) ==
    LET failed == UpdateImage_checks(self, checks)
        w1 == PacketType_write_to("UpdateImageV3", writer)
        w2 == bool_write_to(self.grab_focus, w1)
        w3 == str_write_to(self.image_name, w2)
        w4 == u32_write_to(as_u32(NatDigits(Len(self.channel_names), 8)), w3)
        w5 == write_all_str(w4, self.channel_names)
        w6 == u32_write_to(self.x, w5)
        w7 == u32_write_to(self.y, w6)
        w8 == u32_write_to(self.width, w7)
        w9 == u32_write_to(self.height, w8)
        w10 == write_all_u64(w9, self.channel_offsets)
        w11 == write_all_u64(w10, self.channel_strides)
    IN  IF failed # NoPanic THEN Panic(writer, failed)
        ELSE write_all_f32(w11, self.data)

\* TevPacket::write_to, dispatched on the packet's type.
write_to(packet, writer, checks) ==
    CASE packet.kind = "OpenImage" -> PacketOpenImage_write_to(packet, writer)
      [] packet.kind = "ReloadImage" -> PacketReloadImage_write_to(packet, writer)
      [] packet.kind = "CloseImage" -> PacketCloseImage_write_to(packet, writer)
      [] packet.kind = "CreateImage" -> PacketCreateImage_write_to(packet, writer)
      [] packet.kind = "UpdateImage" -> PacketUpdateImage_write_to(packet, writer, checks)

----------------------------------------------------------------------------
(* TevClient::send. *)

\* Mutant: the buffer of the send before is used again, not cleared.
reserved_stale == IF target = <<>> THEN <<0, 0, 0, 0>> ELSE target

\* vec![0, 0, 0, 0]: the space reserved for the packet length.
reserved == <<0, 0, 0, 0>>

\* vec[0..4].copy_from_slice(&packet_length.to_le_bytes())
copy_from_slice(vec, bytes) == bytes \o SubSeq(vec, Len(bytes) + 1, Len(vec))

\* The buffer send passes to write_all, from the writer write_to left.
packet_bytes(writer) ==
    LET vec == writer.target
        packet_length == as_u32(len(vec))
    IN  copy_from_slice(vec, to_le_bytes(packet_length))

\* Mutant: Write::write, which returns Ok after a partial write.
write_once(buf, accepted) ==
    IF accepted < 0 \/ buf = <<>>
    THEN [result |-> "Ok", delivered |-> buf]
    ELSE LET k == IF accepted < Len(buf) THEN accepted ELSE Len(buf) - 1
         IN  [result |-> IF k > 0 THEN "Ok" ELSE "Err", delivered |-> SubSeq(buf, 1, k)]

\* Write::write_all on the TcpStream.  `accepted` is what the stream does: -1 when
\* it takes every element, k >= 0 when a write fails after the stream took k
\* elements (fewer than all of them: write_all returns Ok once nothing is left).
write_all(buf, accepted) ==
    IF accepted < 0 \/ buf = <<>>
    THEN [result |-> "Ok", delivered |-> buf]
    ELSE LET k == IF accepted < Len(buf) THEN accepted ELSE Len(buf) - 1
         IN  [result |-> "Err", delivered |-> SubSeq(buf, 1, k)]

\* The end of send, with the writer write_to left and the buffer made of it.
send_vec(packet, writer, vec, accepted) ==
    IF writer.panic # NoPanic
    THEN /\ target' = writer.target
         /\ written' = <<>>
         /\ socket' = socket
         /\ log' = Append(log, [packet |-> packet, result |-> "panic",
                                panic |-> writer.panic, io |-> accepted,
                                start |-> Len(socket), count |-> 0])
    ELSE LET io == write_all(vec, accepted)
         IN  /\ target' = writer.target
             /\ written' = <<vec>>
             /\ socket' = socket \o io.delivered
             /\ log' = Append(log, [packet |-> packet, result |-> io.result,
                                    panic |-> NoPanic, io |-> accepted,
                                    start |-> Len(socket),
                                    count |-> Len(io.delivered)])

send_writer(packet, writer, accepted) ==
    send_vec(packet, writer, packet_bytes(writer), accepted)

send(packet, accepted) ==
    /\ client = "connected"
    /\ Len(log) < MaxSends
    /\ send_writer(packet, write_to(packet, TevWriter(reserved), overflow_checks),
                   accepted)
    /\ UNCHANGED <<overflow_checks, client, spawned>>

\* TevClient::wrap: the client owns an already connected stream.
wrap ==
    /\ client = "none"
    /\ client' = "connected"
    /\ UNCHANGED <<overflow_checks, socket, log, target, written, spawned>>

----------------------------------------------------------------------------
(* TevClient::spawn. *)

PATTERNS ==
    << <<73, 110, 105, 116, 105, 97, 108, 105, 122, 101, 100, 32, 73, 80, 67,
         44, 32, 108, 105, 115, 116, 101, 110, 105, 110, 103, 32, 111, 110, 32>>,
       <<67, 111, 110, 110, 101, 99, 116, 101, 100, 32, 116, 111, 32, 112, 114,
         105, 109, 97, 114, 121, 32, 105, 110, 115, 116, 97, 110, 99, 101, 32,
         97, 116, 32>> >>

\* '\u{1b}'
ESC == 27

\* '\n'
LF == 10

\* str::find: where the first occurrence of pattern starts in s (from 1), or 0
\* for None.
find(s, pattern) ==
    LET at == {i \in 1..(Len(s) - Len(pattern) + 1) :
                   SubSeq(s, i, i + Len(pattern) - 1) = pattern}
    IN  IF at = {} THEN 0 ELSE CHOOSE i \in at : \A j \in at : i <= j

\* Mutant: the terminal escape code is not cut off.
host_after_uncut(line, pattern) ==
    LET start == find(line, pattern)
    IN  SubSeq(line, start + Len(pattern), Len(line))

\* The body of `if let Some(start) = line.find(pattern)`: the host in the line.
host_after(line, pattern) ==
    LET start == find(line, pattern)
        rest == SubSeq(line, start + Len(pattern), Len(line))
        esc == find(rest, <<ESC>>)
        end == IF esc = 0 THEN Len(rest) ELSE esc - 1
    IN  SubSeq(rest, 1, end)

\* `for pattern in PATTERNS`, from pattern k on.
RECURSIVE match_patterns(_, _)
match_patterns(line, k) ==
    IF k > Len(PATTERNS) THEN [found |-> FALSE, host |-> <<>>]
    ELSE IF find(line, PATTERNS[k]) # 0
    THEN [found |-> TRUE, host |-> host_after(line, PATTERNS[k])]
    ELSE match_patterns(line, k + 1)

\* `for line in reader.lines()`, from line i on, and the return after it.  The
\* child's output is stdout.lines, then a read error (stdout.fails) or its end.
RECURSIVE read_lines(_, _, _, _)
read_lines(stdout, connects, i, read) ==
    IF i > Len(stdout.lines)
    THEN IF stdout.fails
         THEN [result |-> "Stdout", host |-> <<>>, read |-> <<>>, lines |-> i - 1]
         ELSE [result |-> "NoSocketResponse", host |-> <<>>, read |-> read,
               lines |-> i - 1]
    ELSE LET line == stdout.lines[i]
             m == match_patterns(line, 1)
         IN  IF m.found
             THEN [result |-> IF connects THEN "Ok" ELSE "TcpConnect",
                   host |-> m.host, read |-> <<>>, lines |-> i]
             ELSE read_lines(stdout, connects, i + 1, (read \o line) \o <<LF>>)

\* What spawn returns: `launches` is whether the command starts, `connects`
\* whether TcpStream::connect succeeds.
spawn_result(launches, stdout, connects) ==
    IF ~launches
    THEN [result |-> "Command", host |-> <<>>, read |-> <<>>, lines |-> 0]
    ELSE read_lines(stdout, connects, 1, <<>>)

\* The model follows one call of spawn: calls share no state.
spawn(launches, stdout, connects) ==
    /\ client = "none"
    /\ spawned = <<>>
    /\ LET out == spawn_result(launches, stdout, connects)
       IN  /\ spawned' = <<[launches |-> launches, stdout |-> stdout,
                            connects |-> connects, out |-> out]>>
           /\ client' = IF out.result = "Ok" THEN "connected" ELSE "none"
    /\ UNCHANGED <<overflow_checks, socket, log, target, written>>

----------------------------------------------------------------------------
(* The inputs. *)

RECURSIVE SeqsUpTo(_, _)
SeqsUpTo(S, n) ==
    IF n = 0 THEN {<<>>}
    ELSE LET shorter == SeqsUpTo(S, n - 1)
         IN  shorter \cup {Append(s, x) : s \in {q \in shorter : Len(q) = n - 1}, x \in S}

U32(n) == NatDigits(n, 4)

U64(n) == NatDigits(n, 8)

U64Max == [i \in 1..8 |-> 255]

\* 2^63
U64Half == <<128, 0, 0, 0, 0, 0, 0, 0>>

\* The bit patterns of 1.0 and of -0.5.
F32One == <<63, 128, 0, 0>>

F32MinusHalf == <<191, 0, 0, 0>>

StrEmpty == <<>>

StrX == <<120>>

StrAPng == <<97, 46, 112, 110, 103>>

StrR == <<82>>

StrG == <<71>>

StrB == <<66>>

\* "a\0b"
StrNul == <<97, 0, 98>>

\* 2^32 times the letter a.
StrHuge == <<97, -(2 ^ 30 - 1), -(2 ^ 30), -(2 ^ 30), -(2 ^ 30)>>

Floats(n) == [i \in 1..n |-> IF i % 2 = 1 THEN F32One ELSE F32MinusHalf]

OpenImage(name, focus, selector) ==
    [kind |-> "OpenImage", image_name |-> name, grab_focus |-> focus,
     channel_selector |-> selector]

ReloadImage(name, focus) ==
    [kind |-> "ReloadImage", image_name |-> name, grab_focus |-> focus]

CloseImage(name) == [kind |-> "CloseImage", image_name |-> name]

CreateImage(name, focus, w, h, names) ==
    [kind |-> "CreateImage", image_name |-> name, grab_focus |-> focus,
     width |-> w, height |-> h, channel_names |-> names]

UpdateImage(name, focus, names, offsets, strides, x, y, w, h, data) ==
    [kind |-> "UpdateImage", image_name |-> name, grab_focus |-> focus,
     channel_names |-> names, channel_offsets |-> offsets,
     channel_strides |-> strides, x |-> x, y |-> y, width |-> w, height |-> h,
     data |-> data]

\* The packets of the client's life cycle.
Packets ==
    { OpenImage(StrX, FALSE, StrNul),
      CloseImage(StrX),
      CloseImage(StrHuge),
      CreateImage(StrAPng, TRUE, U32(4), U32(2), <<StrR, StrG, StrB>>),
      UpdateImage(StrX, TRUE, <<StrR>>, <<U64(0)>>, <<U64(1)>>,
                  U32(0), U32(0), U32(3), U32(1), Floats(3)),
      UpdateImage(StrX, TRUE, <<StrR>>, <<U64(0)>>, <<U64(1)>>,
                  U32(0), U32(0), U32(3), U32(1), Floats(2)),
      UpdateImage(StrX, FALSE, <<StrR>>, <<U64Max>>, <<U64(1)>>,
                  U32(0), U32(0), U32(2), U32(1), Floats(1)) }

Names == {StrEmpty, StrX, StrAPng, StrNul}

OpenImages ==
    {OpenImage(name, focus, selector) :
        name \in Names, focus \in BOOLEAN, selector \in {StrEmpty, StrR, StrNul}}

ReloadImages ==
    {ReloadImage(name, focus) : name \in Names \cup {StrHuge}, focus \in BOOLEAN}

CloseImages == {CloseImage(name) : name \in Names \cup {StrHuge}}

CreateImages ==
    {CreateImage(name, focus, w, U32(2), names) :
        name \in {StrX, StrNul}, focus \in BOOLEAN, w \in {U32(4), Low(U64Max, 4)},
        names \in SeqsUpTo({StrR, StrG, StrNul}, MaxChannels)}
    \cup {CreateImage(StrAPng, TRUE, U32(4), U32(2), <<StrR, StrG, StrB>>)}

\* A channel of an UpdateImage packet: its name, its offset and its stride.
Channels ==
    { <<StrR, U64(0), U64(1)>>,
      <<StrG, U64(1), U64(2)>>,
      <<StrR, U64Max, U64(1)>>,
      <<StrG, U64(0), U64Half>>,
      <<StrNul, U64(1), U64(0)>> }

\* The width and the height of an UpdateImage packet.
Sizes ==
    { <<U32(0), U32(1)>>, <<U32(1), U32(1)>>, <<U32(2), U32(1)>>,
      <<U32(1), U32(3)>>, <<U32(65536), U32(65536)>> }

\* The first n - d elements of the n elements of s.
DropLast(s, d) == SubSeq(s, 1, IF Len(s) > d THEN Len(s) - d ELSE 0)

\* UpdateImage packets: up to MaxChannels channels, each of the three arrays
\* with or without its last element, and up to MaxData values.
UpdateImages ==
    {UpdateImage(StrX, TRUE,
                 DropLast([i \in 1..Len(cs) |-> cs[i][1]], d[1]),
                 DropLast([i \in 1..Len(cs) |-> cs[i][2]], d[2]),
                 DropLast([i \in 1..Len(cs) |-> cs[i][3]], d[3]),
                 U32(7), U32(258), size[1], size[2], Floats(n)) :
        cs \in SeqsUpTo(Channels, MaxChannels),
        d \in {<<0, 0, 0>>, <<1, 0, 0>>, <<0, 1, 0>>, <<0, 0, 1>>},
        size \in Sizes, n \in 0..MaxData}
    \cup {UpdateImage(StrNul, FALSE, <<>>, <<>>, <<>>,
                      U32(0), U32(0), U32(1), U32(1), Floats(1)),
          UpdateImage(StrNul, FALSE, <<StrR>>, <<U64(0)>>, <<U64(1)>>,
                      U32(0), U32(0), U32(1), U32(1), Floats(1))}

\* The packets the encoder is applied to.
AllPackets ==
    OpenImages \cup ReloadImages \cup CloseImages \cup CreateImages \cup UpdateImages

\* What the stream does with a write: -1 takes it all, k fails after k elements.
Accepted == {-1, 0, 5}

\* "h:1"
StrHost == <<104, 58, 49>>

\* "[0m", what follows ESC in a terminal escape code.
StrColour == <<91, 48, 109>>

\* The lines the child may print.
Lines ==
    { StrEmpty,
      <<116, 101, 118>>,
      SubSeq(PATTERNS[1], 1, Len(PATTERNS[1]) - 1) \o StrHost,
      PATTERNS[1] \o StrHost,
      ((StrX \o PATTERNS[2]) \o StrHost) \o (<<ESC>> \o StrColour),
      (PATTERNS[2] \o StrX) \o (PATTERNS[1] \o StrHost),
      (PATTERNS[1] \o <<ESC>>) \o StrHost,
      (PATTERNS[2] \o StrHost) \o (PATTERNS[2] \o StrX) }

\* What the child's standard output may be.
Stdouts == [lines : SeqsUpTo(Lines, MaxLines), fails : BOOLEAN]

\* The outputs of a child in the client's life cycle.
FewStdouts ==
    { [lines |-> <<<<116, 101, 118>>, PATTERNS[1] \o StrHost>>, fails |-> FALSE],
      [lines |-> <<StrEmpty>>, fails |-> FALSE] }

----------------------------------------------------------------------------
(* The client's life cycle. *)

Init ==
    /\ overflow_checks \in BOOLEAN
    /\ client = "none"
    /\ socket = <<>>
    /\ log = <<>>
    /\ target = <<>>
    /\ written = <<>>
    /\ spawned = <<>>

Next ==
    \/ wrap
    \/ \E stdout \in FewStdouts, connects \in BOOLEAN : spawn(TRUE, stdout, connects)
    \/ \E packet \in Packets, accepted \in Accepted : send(packet, accepted)

Spec == Init /\ [][Next]_vars

\* Construction by spawn alone, on every output of the child.
NextSpawn ==
    \E launches \in BOOLEAN, stdout \in Stdouts, connects \in BOOLEAN :
        spawn(launches, stdout, connects)

SpecSpawn == Init /\ [][NextSpawn]_vars

\* The encoder alone: one send on a wrapped stream that takes every write.
InitEncode ==
    /\ overflow_checks \in BOOLEAN
    /\ client = "connected"
    /\ socket = <<>>
    /\ log = <<>>
    /\ target = <<>>
    /\ written = <<>>
    /\ spawned = <<>>

NextEncode == \E packet \in AllPackets : log = <<>> /\ send(packet, -1)

SpecEncode == InitEncode /\ [][NextEncode]_vars

----------------------------------------------------------------------------
(* Reading a frame back, field by field, as the table of the wire format     *)
(* lays it out.  Used by the properties only.                                *)

Undecodable == [kind |-> "undecodable"]

\* The n elements of b from pos on, or zeros when b ends before.
Get(b, pos, n) ==
    IF pos >= 1 /\ pos + n - 1 <= Len(b) THEN SubSeq(b, pos, pos + n - 1) ELSE Zeros(n)

\* A fixed-width integer read from its little-endian bytes.
from_le_bytes(bytes) == [i \in 1..Len(bytes) |-> bytes[Len(bytes) + 1 - i]]

\* Where the first 0x00 at or after pos is in b; past the end of b when none is.
NulAt(b, pos) ==
    LET z == {i \in pos..Len(b) : b[i] = 0}
    IN  IF z = {} THEN Len(b) + 2 ELSE CHOOSE i \in z : \A j \in z : i <= j

rd_str(b, pos) ==
    [value |-> IF NulAt(b, pos) <= Len(b) THEN SubSeq(b, pos, NulAt(b, pos) - 1) ELSE <<>>,
     next |-> NulAt(b, pos) + 1]

RECURSIVE rd_strs(_, _, _)
rd_strs(b, pos, count) ==
    IF count = 0 \/ pos > Len(b) THEN [value |-> <<>>, next |-> pos, left |-> count]
    ELSE LET s == rd_str(b, pos)
             more == rd_strs(b, s.next, count - 1)
         IN  [value |-> <<s.value>> \o more.value, next |-> more.next, left |-> more.left]

\* A u32 as a natural number, when it is below 2^16 (and 2^16 otherwise).
SmallNat(v) == IF v[1] = 0 /\ v[2] = 0 THEN v[3] * 256 + v[4] ELSE 65536

rd_bool_ok(b, pos) == pos <= Len(b) /\ b[pos] \in {0, 1}

DecodeOpen(b) ==
    LET name == rd_str(b, 7)
        selector == rd_str(b, name.next)
    IN  IF rd_bool_ok(b, 6) /\ selector.next = Len(b) + 1
        THEN OpenImage(name.value, b[6] = 1, selector.value)
        ELSE Undecodable

DecodeReload(b) ==
    LET name == rd_str(b, 7)
    IN  IF rd_bool_ok(b, 6) /\ name.next = Len(b) + 1
        THEN ReloadImage(name.value, b[6] = 1)
        ELSE Undecodable

DecodeClose(b) ==
    LET name == rd_str(b, 6)
    IN  IF name.next = Len(b) + 1 THEN CloseImage(name.value) ELSE Undecodable

DecodeCreate(b) ==
    LET name == rd_str(b, 7)
        at == name.next
        count == SmallNat(from_le_bytes(Get(b, at + 8, 4)))
        names == rd_strs(b, at + 12, count)
    IN  IF rd_bool_ok(b, 6) /\ names.left = 0 /\ names.next = Len(b) + 1
        THEN CreateImage(name.value, b[6] = 1, from_le_bytes(Get(b, at, 4)),
                         from_le_bytes(Get(b, at + 4, 4)), names.value)
        ELSE Undecodable

DecodeUpdate(b) ==
    LET name == rd_str(b, 7)
        count == SmallNat(from_le_bytes(Get(b, name.next, 4)))
        names == rd_strs(b, name.next + 4, count)
        at == names.next
        offsets == at + 16
        strides == offsets + 8 * count
        data == strides + 8 * count
        values == (Len(b) + 1 - data) \div 4
    IN  IF /\ rd_bool_ok(b, 6)
           /\ names.left = 0
           /\ data <= Len(b) + 1
           /\ (Len(b) + 1 - data) % 4 = 0
        THEN UpdateImage(name.value, b[6] = 1, names.value,
                 [i \in 1..count |-> from_le_bytes(Get(b, offsets + 8 * (i - 1), 8))],
                 [i \in 1..count |-> from_le_bytes(Get(b, strides + 8 * (i - 1), 8))],
                 from_le_bytes(Get(b, at, 4)), from_le_bytes(Get(b, at + 4, 4)),
                 from_le_bytes(Get(b, at + 8, 4)), from_le_bytes(Get(b, at + 12, 4)),
                 [i \in 1..values |-> from_le_bytes(Get(b, data + 4 * (i - 1), 4))])
        ELSE Undecodable

\* The packet a frame holds: the variant from the opcode at index 4 (from 0),
\* the fields from the bytes after it.
Decode(b) ==
    IF Len(b) < 5 THEN Undecodable
    ELSE CASE b[5] = 7 -> DecodeOpen(b)
           [] b[5] = 1 -> DecodeReload(b)
           [] b[5] = 2 -> DecodeClose(b)
           [] b[5] = 4 -> DecodeCreate(b)
           [] b[5] = 6 -> DecodeUpdate(b)
           [] OTHER -> Undecodable

----------------------------------------------------------------------------
(* What the properties say of a packet, stated without the encoder. *)

Sent == log # <<>>

Last == log[Len(log)]

\* The string fields of a packet, in the order of the wire format.
Strings(p) ==
    CASE p.kind = "OpenImage" -> <<p.image_name, p.channel_selector>>
      [] p.kind = "ReloadImage" -> <<p.image_name>>
      [] p.kind = "CloseImage" -> <<p.image_name>>
      [] p.kind = "CreateImage" -> <<p.image_name>> \o p.channel_names
      [] p.kind = "UpdateImage" -> <<p.image_name>> \o p.channel_names

HasNulByte(s) == 0 \in {s[i] : i \in 1..Len(s)}

HasNul(p) == \E i \in 1..Len(Strings(p)) : HasNulByte(Strings(p)[i])

InvalidString == "cannot send strings containing '\\0'"

InvalidPacket ==
    { "Must update at least one channel", "Channel count must be consistent",
      "Must update at least one pixel",
      "Data size does not match actually used data range" }

OverflowPanic == {"attempt to add with overflow", "attempt to multiply with overflow"}

\* The frame the last send handed to the stream, when it handed one.
Handed == written[1]

----------------------------------------------------------------------------
(* C1 *)

\* C1: whenever send hands a frame to the stream, the first 4 bytes of the
\* frame, read as a little-endian u32, are the total length of the frame in
\* bytes, the 4 bytes of the prefix included.
C1_PrefixIsFrameLength ==
    written # <<>> =>
        Widen(from_le_bytes(SubSeq(Handed, 1, 4)), 8) = len(Handed)

----------------------------------------------------------------------------
(* C2 *)

\* C2: the byte at index 4 of every frame is the opcode of the packet's variant:
\* ReloadImage 1, CloseImage 2, CreateImage 4, UpdateImage 6, OpenImage 7, and
\* never another value.
C2_OpcodeOfVariant ==
    written # <<>> =>
        /\ Handed[5] \in {1, 2, 4, 6, 7}
        /\ Handed[5] = CASE Last.packet.kind = "ReloadImage" -> 1
                         [] Last.packet.kind = "CloseImage" -> 2
                         [] Last.packet.kind = "CreateImage" -> 4
                         [] Last.packet.kind = "UpdateImage" -> 6
                         [] Last.packet.kind = "OpenImage" -> 7

C2_Witness ==
    /\ written # <<>>
    /\ Last.packet.kind = "OpenImage"
    /\ Handed[5] = 7

----------------------------------------------------------------------------
(* C3 *)

----------------------------------------------------------------------------
(* C4 *)

\* The number of elements of the buffer when the first string with a null byte
\* is reached: the reserved prefix, the opcode and the fields before it.
StrSize(s) == Len(s) + 1

RECURSIVE SizeBeforeNul(_)
SizeBeforeNul(names) ==
    IF names = <<>> \/ HasNulByte(Head(names)) THEN 0
    ELSE StrSize(Head(names)) + SizeBeforeNul(Tail(names))

BufferBeforeNul(p) ==
    CASE p.kind = "CloseImage" -> 5
      [] p.kind = "ReloadImage" -> 6
      [] p.kind = "OpenImage" ->
            IF HasNulByte(p.image_name) THEN 6 ELSE 6 + StrSize(p.image_name)
      [] p.kind = "CreateImage" ->
            IF HasNulByte(p.image_name) THEN 6
            ELSE 6 + StrSize(p.image_name) + 12 + SizeBeforeNul(p.channel_names)
      [] p.kind = "UpdateImage" ->
            IF HasNulByte(p.image_name) THEN 6
            ELSE 6 + StrSize(p.image_name) + 4 + SizeBeforeNul(p.channel_names)

\* C4, as claimed: a packet with a null byte in any string field fails with
\* InvalidString, before a byte of that string is appended, and no byte of the
\* packet reaches the stream.
C4_NulFailsWithInvalidString ==
    (Sent /\ HasNul(Last.packet)) =>
        /\ Last.result = "panic"
        /\ Last.panic = InvalidString
        /\ Len(target) = BufferBeforeNul(Last.packet)
        /\ written = <<>>
        /\ socket = <<>>

\* C4, amended: a packet with a null byte in any string field fails and no byte
\* of it reaches the stream.  The failure is InvalidString, raised before a byte
\* of that string is appended, unless the packet is an UpdateImage that its own
\* validation rejects first: that one fails in the validation (InvalidPacket, or
\* the overflow panic of a build with overflow checks) with nothing appended.
C4_NulFails ==
    (Sent /\ HasNul(Last.packet)) =>
        /\ Last.result = "panic"
        /\ written = <<>>
        /\ socket = <<>>
        /\ \/ /\ Last.panic = InvalidString
              /\ Len(target) = BufferBeforeNul(Last.packet)
           \/ /\ Last.packet.kind = "UpdateImage"
              /\ Last.panic \in InvalidPacket \cup OverflowPanic
              /\ target = <<0, 0, 0, 0>>

C4_Witness ==
    /\ Sent
    /\ Last.packet.kind = "CreateImage"
    /\ ~HasNulByte(Last.packet.image_name)
    /\ Len(Last.packet.channel_names) = 2
    /\ ~HasNulByte(Last.packet.channel_names[1])
    /\ HasNulByte(Last.packet.channel_names[2])
    /\ Last.panic = InvalidString

----------------------------------------------------------------------------
(* C5 *)

ChannelsConsistent(p) ==
    /\ Len(p.channel_names) # 0
    /\ Len(p.channel_names) = Len(p.channel_offsets)
    /\ Len(p.channel_names) = Len(p.channel_strides)

\* width * height, exactly: the 8 digits of the product of two u32.
Pixels(p) == Mul(p.width, p.height)

\* C5: an UpdateImage packet whose three channel arrays do not all have the
\* same non-zero length, or whose width * height is zero, fails with
\* InvalidPacket before the opcode or any field is written: the buffer holds the
\* reserved prefix alone and nothing is handed to the stream.  A product that is
\* zero only in 32 bits (65536 * 65536) is not a zero pixel count.
C5_InvalidUpdateWritesNothing ==
    (Sent /\ Last.packet.kind = "UpdateImage") =>
        /\ (~ChannelsConsistent(Last.packet) \/ IsZero(Pixels(Last.packet))) =>
              /\ Last.result = "panic"
              /\ Last.panic \in InvalidPacket
              /\ target = <<0, 0, 0, 0>>
              /\ written = <<>>
              /\ socket = <<>>
        /\ Last.panic = "Must update at least one pixel" =>
              IsZero(Last.packet.width) \/ IsZero(Last.packet.height)

C5_Witness ==
    /\ Sent
    /\ Last.packet.kind = "UpdateImage"
    /\ Len(Last.packet.channel_names) = 2
    /\ Len(Last.packet.channel_offsets) = 1
    /\ Last.panic = "Channel count must be consistent"
    /\ target = <<0, 0, 0, 0>>

----------------------------------------------------------------------------
(* C6 *)

\* offset + (width * height - 1) * stride + 1, exactly: 18 digits.
Bound(p, i) ==
    Add(Add(Widen(p.channel_offsets[i], 16), Mul(SubOne(Pixels(p)), p.channel_strides[i])),
        NatDigits(1, 17))

DataLen(p) == NatDigits(Len(p.data), 18)

\* No channel reaches past the data and one channel reaches its end.
DataFits(p) ==
    /\ \A i \in 1..Len(p.channel_offsets) : ~Less(DataLen(p), Bound(p, i))
    /\ \E i \in 1..Len(p.channel_offsets) : Bound(p, i) = DataLen(p)

\* C6: an UpdateImage packet with consistent channel arrays and a non-zero
\* pixel count passes the validation exactly when no channel's bound
\* offset + (width * height - 1) * stride + 1 exceeds data.len() and the greatest
\* bound is data.len(); any other is rejected with InvalidPacket.
C6_AcceptedIffDataFits ==
    (/\ Sent
     /\ Last.packet.kind = "UpdateImage"
     /\ ChannelsConsistent(Last.packet)
     /\ ~IsZero(Pixels(Last.packet))) =>
        IF DataFits(Last.packet)
        THEN Last.panic \notin InvalidPacket \cup OverflowPanic
        ELSE Last.panic = "Data size does not match actually used data range"

----------------------------------------------------------------------------
(* C7 *)

\* A packet the validation rejects: a null byte in a string, or an UpdateImage
\* with inconsistent channel arrays, no pixel, or data that does not fit.  In a
\* build without overflow checks a packet whose data does not fit can pass, its
\* bounds wrapping (C6), so that case counts with overflow checks only.
Invalid(p) ==
    \/ HasNul(p)
    \/ /\ p.kind = "UpdateImage"
       /\ \/ ~ChannelsConsistent(p)
          \/ IsZero(Pixels(p))
          \/ overflow_checks /\ ~DataFits(p)

\* C7, as claimed: every failure of send is returned to the caller as a typed
\* result, a validation failure too: no send ends by unwinding the caller.
C7_FailuresAreReturned ==
    \A i \in 1..Len(log) :
        /\ log[i].result \in {"Ok", "Err"}
        /\ Invalid(log[i].packet) => log[i].result = "Err"

\* C7, amended: a transport failure is returned to the caller as an error value,
\* and nothing else is.  A validation failure is not returned: send panics, with
\* the message of the check that failed, before the stream is touched.  Whether
\* and how a packet fails validation is the same at every send of that packet.
C7_TransportReturnedValidationPanics ==
    \A i \in 1..Len(log) :
        /\ log[i].result \in {"Ok", "Err", "panic"}
        /\ log[i].result = "panic" <=> log[i].panic # ""
        /\ log[i].result = "panic" =>
              /\ log[i].panic \in {InvalidString} \cup InvalidPacket \cup OverflowPanic
              /\ log[i].count = 0
        /\ Invalid(log[i].packet) => log[i].result = "panic"
        /\ log[i].result = "Err" <=> (log[i].panic = "" /\ log[i].io >= 0)
        /\ \A j \in 1..Len(log) :
              log[j].packet = log[i].packet => log[j].panic = log[i].panic

C7_Witness ==
    /\ Len(log) = 2
    /\ log[1].result = "panic"
    /\ log[1].panic = InvalidString
    /\ log[2].result = "Err"

----------------------------------------------------------------------------
(* C8 *)

\* What the last send added to the stream.
Added == SubSeq(socket, Last.start + 1, Len(socket))

\* C8: a send that passes validation builds the whole frame (the opcode and
\* the payload the writer holds, under the patched length prefix, the low 32
\* bits of the frame's length) and passes it to the stream in exactly one
\* write_all.  It returns Ok only when the stream took the whole frame, and the
\* error when the write failed, with what the stream took before the failure
\* and no second attempt.
C8_OneWriteOfWholeFrame ==
    Sent =>
        /\ Len(written) <= 1
        /\ written = <<>> <=> Last.result = "panic"
        /\ written # <<>> =>
              /\ Len(Handed) >= 5
              /\ Len(Handed) = Len(target)
              /\ SubSeq(Handed, 5, Len(Handed)) = SubSeq(target, 5, Len(target))
              /\ from_le_bytes(SubSeq(Handed, 1, 4)) = SubSeq(len(Handed), 5, 8)
              /\ Last.result \in {"Ok", "Err"}
              /\ Last.result = "Ok" => Added = Handed
              /\ Last.result = "Err" =>
                    /\ Len(Added) < Len(Handed)
                    /\ Added = SubSeq(Handed, 1, Len(Added))
              /\ Last.io >= 0 => Last.result = "Err"

C8_Witness ==
    /\ Sent
    /\ Last.result = "Err"
    /\ Len(Added) = 5
    /\ Last.packet.kind = "CreateImage"

----------------------------------------------------------------------------
(* C10 *)

\* What send number i added to the stream.
Segment(i) == SubSeq(socket, log[i].start + 1, log[i].start + log[i].count)

\* C10: the sends of one client add to the stream one after the other, in call
\* order.  What a successful send added is one whole frame that holds its own
\* packet and nothing of an earlier one, whatever the sends before it did
\* (panic, transport failure, success), and two successful sends of the same
\* packet add the same bytes.
C10_SendsIndependentAndOrdered ==
    /\ \A i \in 1..Len(log) :
          /\ log[i].start = IF i = 1 THEN 0 ELSE log[i - 1].start + log[i - 1].count
          /\ log[i].result = "Ok" =>
                /\ Decode(Segment(i)) = log[i].packet
                /\ from_le_bytes(SubSeq(Segment(i), 1, 4)) = SubSeq(len(Segment(i)), 5, 8)
                /\ \A j \in 1..Len(log) :
                      (log[j].result = "Ok" /\ log[j].packet = log[i].packet)
                          => Segment(j) = Segment(i)
    /\ Len(socket) = IF log = <<>> THEN 0 ELSE Last.start + Last.count

C10_Witness ==
    /\ Len(log) = 2
    /\ log[1].result = "Err"
    /\ log[1].count = 5
    /\ log[2].result = "Ok"
    /\ log[2].packet.kind = "UpdateImage"
    /\ Decode(Segment(2)) = log[2].packet

----------------------------------------------------------------------------
(* C9 *)

Contains(line, pattern) ==
    \E i \in 1..(Len(line) - Len(pattern) + 1) :
        SubSeq(line, i, i + Len(pattern) - 1) = pattern

HasAddress(line) == \E k \in 1..2 : Contains(line, PATTERNS[k])

\* Whether host is the text of the line between the end of the first occurrence
\* of a pattern and the first ESC after it, or the end of the line: the first
\* pattern when the line contains both.
IsAddressOf(host, line) ==
    \E k \in 1..2 : \E i \in 1..Len(line) :
        LET from == i + Len(PATTERNS[k])
            to == from + Len(host) - 1
        IN  /\ i + Len(PATTERNS[k]) - 1 <= Len(line)
            /\ SubSeq(line, i, from - 1) = PATTERNS[k]
            /\ \A j \in 1..(i - 1) :
                   j + Len(PATTERNS[k]) - 1 <= Len(line) =>
                       SubSeq(line, j, j + Len(PATTERNS[k]) - 1) # PATTERNS[k]
            /\ k = 2 => ~Contains(line, PATTERNS[1])
            /\ to <= Len(line)
            /\ host = SubSeq(line, from, to)
            /\ \A j \in 1..Len(host) : host[j] # 27
            /\ to = Len(line) \/ line[to + 1] = 27

\* Whether text is the lines, in order, each followed by a line feed.
RECURSIVE IsTextOf(_, _)
IsTextOf(text, lines) ==
    IF lines = <<>> THEN text = <<>>
    ELSE /\ Len(text) > Len(Head(lines))
         /\ SubSeq(text, 1, Len(Head(lines))) = Head(lines)
         /\ text[Len(Head(lines)) + 1] = 10
         /\ IsTextOf(SubSeq(text, Len(Head(lines)) + 2, Len(text)), Tail(lines))

\* C9: spawn reads the child's output line by line.  At the first line that
\* contains one of the two patterns it stops reading, takes the address after
\* the pattern up to the first ESC or the end of the line, and connects to it:
\* it returns the client, or the connect failure with that host.  When the
\* output ends before a line contains a pattern it fails with NoSocketResponse,
\* which holds every line read, in order.
C9_SpawnFindsAddress ==
    (spawned # <<>> /\ spawned[1].launches) =>
        LET call == spawned[1]
            lines == call.stdout.lines
            hits == {i \in 1..Len(lines) : HasAddress(lines[i])}
        IN  IF hits # {}
            THEN LET first == CHOOSE i \in hits : \A j \in hits : i <= j
                 IN  /\ call.out.lines = first
                     /\ IsAddressOf(call.out.host, lines[first])
                     /\ call.out.result = IF call.connects THEN "Ok" ELSE "TcpConnect"
                     /\ client = IF call.connects THEN "connected" ELSE "none"
            ELSE /\ client = "none"
                 /\ call.out.lines = Len(lines)
                 /\ ~call.stdout.fails =>
                        /\ call.out.result = "NoSocketResponse"
                        /\ IsTextOf(call.out.read, lines)

C9_Witness ==
    /\ spawned # <<>>
    /\ spawned[1].out.result = "TcpConnect"
    /\ spawned[1].out.lines = 2
    /\ spawned[1].out.host = <<104, 58, 49>>
    /\ 27 \in {spawned[1].stdout.lines[2][i] : i \in 1..Len(spawned[1].stdout.lines[2])}

====
